---------------------------- MODULE Spec2Model ----------------------------
(***************************************************************************)
(* Model of server.js: the RingBuffer scrollback, the session registry     *)
(* with gap-filling names, the pty data/exit callbacks and the socket.io   *)
(* handlers for sessions (subscribe, create, input, resize).               *)
(*                                                                         *)
(* Node runs every callback to completion on one thread, so each handler   *)
(* is one action.  JavaScript strings are sequences of code points, byte   *)
(* buffers are sequences of integers 0..255 (Buffer index i is sequence    *)
(* index i+1).                                                             *)
(***************************************************************************)
EXTENDS Integers, Sequences, FiniteSets, TLC

VARIABLES
    rb,         \* a stand-alone RingBuffer (RingSpec)
    appended,   \* every byte handed to rb.append so far, in order (RingSpec)
    phase,      \* "loading" while the module body runs, then "listening"
    uuids,      \* ids uuidv4() has returned
    sessions,   \* the sessions Map: id -> session object
    ptys,       \* the pty process behind each id
    produced,   \* the chunks each pty has emitted, in order
    stdin,      \* what was written to each pty
    geometry,   \* <<cols, rows>> of each pty
    sockets,    \* each socket.io connection: "new", "connected", "disconnected"
    rooms,      \* the rooms each socket has joined
    inbox,      \* the messages emitted to each socket, in order
    event,      \* the callback the event loop ran last, with its arguments
    uncaught,   \* an exception left a callback
    bound       \* how far this run is explored (fixed at the start)

ringVars == <<rb, appended>>
serverVars == <<phase, uuids, sessions, ptys, produced, stdin, geometry,
                sockets, rooms, inbox, event, uncaught, bound>>
vars == <<rb, appended, phase, uuids, sessions, ptys, produced, stdin,
          geometry, sockets, rooms, inbox, event, uncaught, bound>>

-----------------------------------------------------------------------------
(* Bounds *)

\* capacities tried for the stand-alone RingBuffer: 1..MaxLimit
MaxLimit == 3
\* code points per chunk handed to append
MaxChunkLen == 2
\* total bytes appended to the stand-alone RingBuffer
MaxTotal == 6

\* The server is explored in five slices, each wide where its subject needs
\* it and narrow elsewhere.  A slice says how many ids uuidv4() returns
\* (sessions created plus failed spawns), how many connections are made, how
\* many messages a socket is sent, how many chunks the ptys emit and how many
\* pty.write calls are made, all together, and which requests the sockets
\* send.

\* registry slice: ids uuidv4() returns
MaxIds == 5
\* fanout slice: messages sent to a socket
MaxInbox == 4
\* fanout slice: chunks the ptys emit
MaxOutput == 2
\* relay slice: pty.write calls
MaxWrites == 1
\* bytes of scrollback per session (HISTORY_LIMIT, scaled down)
HISTORY_LIMIT == 2

\* the registry and its names: one socket that creates sessions, processes
\* that exit
RegistrySlice ==
    [ids |-> MaxIds, sockets |-> 1, inbox |-> 2, output |-> 0, writes |-> 0,
     subscribe |-> FALSE, relay |-> FALSE]

\* the fanout of output: the bootstrap session, two sockets that subscribe
FanoutSlice ==
    [ids |-> 1, sockets |-> 2, inbox |-> MaxInbox, output |-> MaxOutput,
     writes |-> 0, subscribe |-> TRUE, relay |-> FALSE]

\* the relay of input and resize: two sessions, one socket
RelaySlice ==
    [ids |-> 2, sockets |-> 1, inbox |-> 2, output |-> 0, writes |-> MaxWrites,
     subscribe |-> FALSE, relay |-> TRUE]

\* the separation of sessions: two sessions that emit, one socket that
\* subscribes
IsolationSlice ==
    [ids |-> 2, sockets |-> 1, inbox |-> 3, output |-> MaxOutput, writes |-> 0,
     subscribe |-> TRUE, relay |-> FALSE]

\* the sessions list: three sessions, two connections
ListSlice ==
    [ids |-> 3, sockets |-> 2, inbox |-> 2, output |-> 0, writes |-> 0,
     subscribe |-> FALSE, relay |-> FALSE]

Slices == {RegistrySlice, FanoutSlice, RelaySlice, IsolationSlice, ListSlice}

Min(a, b) == IF a < b THEN a ELSE b

-----------------------------------------------------------------------------
(* Strings and UTF-8 *)

\* U+FFFD, which the decoder puts in place of bytes that are no character
REPLACEMENT == 65533

\* code points the model's strings are made of: 'a', 'b' (1 byte each) and
\* U+00E9 (2 bytes, C3 A9)
Alphabet == {97, 98, 233}

\* Buffer.from(String(input), 'utf8') for one code point
EncodeChar(c) ==
    IF c < 128 THEN <<c>>
    ELSE IF c < 2048 THEN <<192 + (c \div 64), 128 + (c % 64)>>
    ELSE IF c < 65536
         THEN <<224 + (c \div 4096), 128 + ((c \div 64) % 64), 128 + (c % 64)>>
    ELSE <<240 + (c \div 262144), 128 + ((c \div 4096) % 64),
           128 + ((c \div 64) % 64), 128 + (c % 64)>>

RECURSIVE Utf8Encode(_)
Utf8Encode(s) ==
    IF s = <<>> THEN <<>> ELSE EncodeChar(Head(s)) \o Utf8Encode(Tail(s))

IsCont(b) == b >= 128 /\ b <= 191

\* buf.toString('utf8'): a well-formed sequence gives its code point, every
\* maximal ill-formed part gives one U+FFFD
RECURSIVE Utf8Decode(_)
Utf8Decode(bs) ==
    IF bs = <<>> THEN <<>>
    ELSE LET b0 == bs[1]
             n == Len(bs)
             lo2 == IF b0 = 224 THEN 160 ELSE IF b0 = 240 THEN 144 ELSE 128
             hi2 == IF b0 = 237 THEN 159 ELSE IF b0 = 244 THEN 143 ELSE 191
             need == IF b0 >= 194 /\ b0 <= 223 THEN 1
                     ELSE IF b0 >= 224 /\ b0 <= 239 THEN 2
                     ELSE IF b0 >= 240 /\ b0 <= 244 THEN 3
                     ELSE 0
             ok2 == n >= 2 /\ bs[2] >= lo2 /\ bs[2] <= hi2
             ok3 == ok2 /\ n >= 3 /\ IsCont(bs[3])
             ok4 == ok3 /\ n >= 4 /\ IsCont(bs[4])
         IN  IF b0 < 128 THEN <<b0>> \o Utf8Decode(Tail(bs))
             ELSE IF need = 0 THEN <<REPLACEMENT>> \o Utf8Decode(Tail(bs))
             ELSE IF need = 1 THEN
                 IF ok2 THEN <<(b0 - 192) * 64 + (bs[2] - 128)>>
                             \o Utf8Decode(SubSeq(bs, 3, n))
                 ELSE <<REPLACEMENT>> \o Utf8Decode(Tail(bs))
             ELSE IF need = 2 THEN
                 IF ok3 THEN <<(b0 - 224) * 4096 + (bs[2] - 128) * 64
                               + (bs[3] - 128)>>
                             \o Utf8Decode(SubSeq(bs, 4, n))
                 ELSE IF ok2 THEN <<REPLACEMENT>> \o Utf8Decode(SubSeq(bs, 3, n))
                 ELSE <<REPLACEMENT>> \o Utf8Decode(Tail(bs))
             ELSE
                 IF ok4 THEN <<(b0 - 240) * 262144 + (bs[2] - 128) * 4096
                               + (bs[3] - 128) * 64 + (bs[4] - 128)>>
                             \o Utf8Decode(SubSeq(bs, 5, n))
                 ELSE IF ok3 THEN <<REPLACEMENT>> \o Utf8Decode(SubSeq(bs, 4, n))
                 ELSE IF ok2 THEN <<REPLACEMENT>> \o Utf8Decode(SubSeq(bs, 3, n))
                 ELSE <<REPLACEMENT>> \o Utf8Decode(Tail(bs))

\* the strings of at most n code points over Alphabet
RECURSIVE StringsUpTo(_)
StringsUpTo(n) ==
    IF n = 0 THEN {<<>>}
    ELSE LET shorter == StringsUpTo(n - 1)
         IN  shorter \cup {Append(s, c) : s \in shorter, c \in Alphabet}

-----------------------------------------------------------------------------
(* RingBuffer *)

\* Buffer.allocUnsafe does not clear the allocation: a cell that was never
\* written holds UNWRITTEN, and reading it gives any of these bytes
Uninitialised == {0, 195}

UNWRITTEN == -1

\* what reading the cells bs can give
RECURSIVE Reads(_)
Reads(bs) ==
    IF bs = <<>> THEN {<<>>}
    ELSE LET first == IF Head(bs) = UNWRITTEN THEN Uninitialised ELSE {Head(bs)}
         IN  {<<b>> \o rest : b \in first, rest \in Reads(Tail(bs))}

\* source.copy(target, targetStart, sourceStart, sourceEnd): copies what fits
BufferCopy(source, target, targetStart, sourceStart, sourceEnd) ==
    LET n == Min(sourceEnd - sourceStart, Len(target) - targetStart)
    IN  [i \in 1..Len(target) |->
            IF i - 1 >= targetStart /\ i - 1 < targetStart + n
            THEN source[sourceStart + (i - 1 - targetStart) + 1]
            ELSE target[i]]

\* new RingBuffer(limitBytes)
NewRingBuffer(limitBytes) ==
    [buf |-> [i \in 1..limitBytes |-> UNWRITTEN], limit |-> limitBytes,
     start |-> 0, len |-> 0]

\* a mutant of RingAppend: of a chunk as long as the buffer or longer, the
\* head is kept instead of the tail
RingAppendKeepsHead(r, input) ==
    LET b == Utf8Encode(input)
        blen == Len(b)
    IN  IF blen >= r.limit
        THEN [r EXCEPT !.buf = BufferCopy(b, r.buf, 0, 0, r.limit),
                       !.start = 0,
                       !.len = r.limit]
        ELSE LET free == r.limit - r.len
                 start1 == IF blen > free
                           THEN (r.start + (blen - free)) % r.limit
                           ELSE r.start
                 len1 == IF blen > free THEN r.limit ELSE r.len + blen
                 writePos == (start1 + len1 - blen) % r.limit
                 firstPart == Min(blen, r.limit - writePos)
                 buf1 == BufferCopy(b, r.buf, writePos, 0, firstPart)
                 buf2 == IF firstPart < blen
                         THEN BufferCopy(b, buf1, 0, firstPart, blen)
                         ELSE buf1
             IN  [r EXCEPT !.buf = buf2, !.start = start1, !.len = len1]

\* RingBuffer.append(input), input a string
RingAppend(r, input) ==
    LET b == Utf8Encode(input)
        blen == Len(b)
    IN  IF blen >= r.limit
        THEN [r EXCEPT !.buf = BufferCopy(b, r.buf, 0, blen - r.limit, blen),
                       !.start = 0,
                       !.len = r.limit]
        ELSE LET free == r.limit - r.len
                 start1 == IF blen > free
                           THEN (r.start + (blen - free)) % r.limit
                           ELSE r.start
                 len1 == IF blen > free THEN r.limit ELSE r.len + blen
                 writePos == (start1 + len1 - blen) % r.limit
                 firstPart == Min(blen, r.limit - writePos)
                 buf1 == BufferCopy(b, r.buf, writePos, 0, firstPart)
                 buf2 == IF firstPart < blen
                         THEN BufferCopy(b, buf1, 0, firstPart, blen)
                         ELSE buf1
             IN  [r EXCEPT !.buf = buf2, !.start = start1, !.len = len1]

\* buf.slice(from, to)
BufferSlice(buf, from, to) == SubSeq(buf, from + 1, to)

\* the cells RingBuffer.toString reads, in the order it joins them
RingCells(r) ==
    IF r.len = 0 THEN <<>>
    ELSE IF r.start + r.len <= r.limit
         THEN BufferSlice(r.buf, r.start, r.start + r.len)
    ELSE LET tailLen == (r.start + r.len) - r.limit
         IN  BufferSlice(r.buf, r.start, r.limit) \o BufferSlice(r.buf, 0, tailLen)

\* RingBuffer.toString(): the strings it can return
RingToString(r) == {Utf8Decode(bytes) : bytes \in Reads(RingCells(r))}

-----------------------------------------------------------------------------
(* Session names *)

DigitChars == <<"0", "1", "2", "3", "4", "5", "6", "7", "8", "9">>

IsDigit(c) == \E d \in 1..10 : DigitChars[d] = c

DigitValue(c) == (CHOOSE d \in 1..10 : DigitChars[d] = c) - 1

\* String(n) for a positive integer n
RECURSIVE NumberToString(_)
NumberToString(n) ==
    IF n < 10 THEN <<DigitChars[n + 1]>>
    ELSE Append(NumberToString(n \div 10), DigitChars[(n % 10) + 1])

\* parseInt(digits, 10) for a non-empty run of digits
RECURSIVE ParseInt(_)
ParseInt(digits) ==
    IF Len(digits) = 1 THEN DigitValue(digits[1])
    ELSE 10 * ParseInt(SubSeq(digits, 1, Len(digits) - 1))
         + DigitValue(digits[Len(digits)])

TermPrefix == <<"T", "e", "r", "m", " ">>

\* `Term ${sessionNumber}`
SessionName(sessionNumber) == TermPrefix \o NumberToString(sessionNumber)

\* name.match(/^Term (\d+)$/)
MatchesTerm(name) ==
    /\ Len(name) > Len(TermPrefix)
    /\ SubSeq(name, 1, Len(TermPrefix)) = TermPrefix
    /\ \A i \in (Len(TermPrefix) + 1)..Len(name) : IsDigit(name[i])

\* the keys of a Map in the order Array.from walks them: insertion order,
\* which is the order of the ids
RECURSIVE InsertionOrder(_)
InsertionOrder(keys) ==
    IF keys = {} THEN <<>>
    ELSE LET first == CHOOSE k \in keys : \A other \in keys : k <= other
         IN  <<first>> \o InsertionOrder(keys \ {first})

\* .map(match ? parseInt(match[1], 10) : null).filter(n => n !== null)
RECURSIVE ParsedNumbers(_, _)
ParsedNumbers(reg, order) ==
    IF order = <<>> THEN <<>>
    ELSE LET name == reg[Head(order)].name
             rest == ParsedNumbers(reg, Tail(order))
         IN  IF MatchesTerm(name)
             THEN <<ParseInt(SubSeq(name, Len(TermPrefix) + 1, Len(name)))>> \o rest
             ELSE rest

UsedNumbers(reg) == ParsedNumbers(reg, InsertionOrder(DOMAIN reg))

\* n put at its place in the ascending sequence sorted
RECURSIVE InsertSorted(_, _)
InsertSorted(sorted, n) ==
    IF sorted = <<>> THEN <<n>>
    ELSE IF n <= Head(sorted) THEN <<n>> \o sorted
    ELSE <<Head(sorted)>> \o InsertSorted(Tail(sorted), n)

\* a mutant of SortNumbers: the .sort() left out
SortNumbersSkipped(numbers) == numbers

\* .sort((a, b) => a - b)
RECURSIVE SortNumbers(_)
SortNumbers(numbers) ==
    IF numbers = <<>> THEN <<>>
    ELSE InsertSorted(SortNumbers(Tail(numbers)), Head(numbers))

\* the for loop: nextNumber goes up while it meets itself, and stops at the
\* first number that differs
RECURSIVE ScanNumbers(_, _)
ScanNumbers(usedNumbers, nextNumber) ==
    IF usedNumbers = <<>> THEN nextNumber
    ELSE IF Head(usedNumbers) = nextNumber
         THEN ScanNumbers(Tail(usedNumbers), nextNumber + 1)
    ELSE nextNumber

\* a mutant of getNextSessionNumber: sessions.size + 1
getNextSessionNumberBySize(reg) == Cardinality(DOMAIN reg) + 1

\* a mutant of getNextSessionNumber: the count starts at 0
getNextSessionNumberFromZero(reg) == ScanNumbers(SortNumbers(UsedNumbers(reg)), 0)

getNextSessionNumber(reg) == ScanNumbers(SortNumbers(UsedNumbers(reg)), 1)

-----------------------------------------------------------------------------
(* The server *)

Ids == 1..bound.ids

\* uuidv4(): a value it has not returned before; ids are only ever compared
\* for equality, so the next unused number stands for it
uuidv4 == Cardinality(uuids) + 1

\* the chunks a pty emits (node-pty decodes its output to strings)
PtyChunks == {<<97>>, <<233>>}

\* what viewers type
InputData == {<<98>>, <<233>>}

\* terminal sizes viewers ask for
Sizes == {<<80, 30>>, <<100, 40>>}

Registered == DOMAIN sessions

Connected == {v \in DOMAIN sockets : sockets[v] = "connected"}

\* io.to(room): the connected sockets that joined it
InRoom(room) == {v \in Connected : room \in rooms[v]}

\* messages emitted to the sockets in `to`
Emit(to, msg) ==
    [v \in DOMAIN inbox |-> IF v \in to THEN Append(inbox[v], msg) ELSE inbox[v]]

HasRoom(to) == \A v \in to : Len(inbox[v]) < bound.inbox

\* the lengths of the sequences f holds, added up
RECURSIVE TotalLen(_)
TotalLen(f) ==
    IF DOMAIN f = {} THEN 0
    ELSE LET x == CHOOSE y \in DOMAIN f : TRUE
         IN  Len(f[x]) + TotalLen([y \in DOMAIN f \ {x} |-> f[y]])

\* Array.from(sessions.values()).map(s => ({id, name})), in insertion order
SessionList(reg) ==
    LET order == InsertionOrder(DOMAIN reg)
    IN  [k \in 1..Len(order) |->
            [id |-> reg[order[k]].id, name |-> reg[order[k]].name]]

\* a mutant of CreateSession: the session is registered before the spawn is
\* tried, and a failed spawn leaves it there
CreateSessionRegistersFirst(id, spawnOk) ==
    /\ uuids' = uuids \cup {id}
    /\ ptys' = (id :> (IF spawnOk THEN "running" ELSE "failed")) @@ ptys
    /\ geometry' = (id :> <<80, 30>>) @@ geometry
    /\ stdin' = (id :> <<>>) @@ stdin
    /\ produced' = (id :> <<>>) @@ produced
    /\ sessions' = (id :> [id |-> id,
                            name |-> SessionName(getNextSessionNumber(sessions)),
                            history |-> NewRingBuffer(HISTORY_LIMIT)])
                    @@ sessions

\* createSession(): spawn, name, register.  The data and exit callbacks it
\* installs are PtyData and PtyExit.
CreateSession(id, spawnOk) ==
    /\ uuids' = uuids \cup {id}
    /\ IF ~spawnOk
       THEN /\ ptys' = (id :> "failed") @@ ptys
            /\ UNCHANGED <<sessions, produced, stdin, geometry>>
       ELSE /\ ptys' = (id :> "running") @@ ptys
            /\ geometry' = (id :> <<80, 30>>) @@ geometry
            /\ stdin' = (id :> <<>>) @@ stdin
            /\ produced' = (id :> <<>>) @@ produced
            /\ sessions' = (id :> [id |-> id,
                                    name |-> SessionName(getNextSessionNumber(sessions)),
                                    history |-> NewRingBuffer(HISTORY_LIMIT)])
                            @@ sessions

\* if (sessions.size === 0) createSession();  then the server listens
Bootstrap ==
    /\ phase = "loading"
    /\ phase' = "listening"
    /\ \E spawnOk \in BOOLEAN :
         /\ IF Cardinality(DOMAIN sessions) = 0
            THEN CreateSession(uuidv4, spawnOk)
            ELSE UNCHANGED <<uuids, ptys, sessions, produced, stdin, geometry>>
         /\ event' = [type |-> "bootstrap", spawnOk |-> spawnOk]
    /\ UNCHANGED <<sockets, rooms, inbox, uncaught, bound, ringVars>>

\* io.on('connection'): the new socket gets the sessions list
OnConnection ==
    /\ phase = "listening"
    /\ Len(sockets) < bound.sockets
    /\ LET v == Len(sockets) + 1
       IN  /\ sockets' = Append(sockets, "connected")
           /\ rooms' = Append(rooms, {})
           /\ inbox' = Append(inbox, <<[type |-> "sessions-list",
                                        list |-> SessionList(sessions)]>>)
           /\ event' = [type |-> "connection", socket |-> v]
    /\ UNCHANGED <<phase, uuids, sessions, ptys, produced, stdin, geometry,
                   uncaught, bound, ringVars>>

\* a mutant of OnDisconnect: the sessions are closed with their last viewer
OnDisconnectClosesSessions(v) ==
    /\ v \in Connected
    /\ sockets' = [sockets EXCEPT ![v] = "disconnected"]
    /\ rooms' = [rooms EXCEPT ![v] = {}]
    /\ sessions' = IF Connected = {v} THEN <<>> ELSE sessions
    /\ event' = [type |-> "disconnect", socket |-> v]
    /\ UNCHANGED <<phase, uuids, ptys, produced, stdin, geometry,
                   inbox, uncaught, bound, ringVars>>

\* the connection ends: socket.io takes the socket out of every room
OnDisconnect(v) ==
    /\ v \in Connected
    /\ sockets' = [sockets EXCEPT ![v] = "disconnected"]
    /\ rooms' = [rooms EXCEPT ![v] = {}]
    /\ event' = [type |-> "disconnect", socket |-> v]
    /\ UNCHANGED <<phase, uuids, sessions, ptys, produced, stdin, geometry,
                   inbox, uncaught, bound, ringVars>>

\* a mutant of OnSubscribeSession: the socket joins the room without the
\* session being looked up
OnSubscribeSessionUnchecked(v, sessionId) ==
    /\ v \in Connected
    /\ bound.subscribe
    /\ rooms' = [rooms EXCEPT ![v] = @ \cup {sessionId}]
    /\ IF sessionId \in DOMAIN sessions
       THEN \E h \in RingToString(sessions[sessionId].history) :
                IF Len(h) # 0
                THEN /\ HasRoom({v})
                     /\ inbox' = Emit({v}, [type |-> "history",
                                            sessionId |-> sessionId,
                                            history |-> h])
                ELSE inbox' = inbox
       ELSE inbox' = inbox
    /\ event' = [type |-> "subscribe-session", socket |-> v, sessionId |-> sessionId]
    /\ UNCHANGED <<phase, uuids, sessions, ptys, produced, stdin, geometry,
                   sockets, uncaught, bound, ringVars>>

\* a mutant of OnSubscribeSession: the history is sent without the test of
\* its length
OnSubscribeSessionAlwaysReplays(v, sessionId) ==
    /\ v \in Connected
    /\ bound.subscribe
    /\ IF sessionId \in DOMAIN sessions
       THEN \E h \in RingToString(sessions[sessionId].history) :
                /\ rooms' = [rooms EXCEPT ![v] = @ \cup {sessionId}]
                /\ HasRoom({v})
                /\ inbox' = Emit({v}, [type |-> "history",
                                       sessionId |-> sessionId,
                                       history |-> h])
       ELSE UNCHANGED <<rooms, inbox>>
    /\ event' = [type |-> "subscribe-session", socket |-> v, sessionId |-> sessionId]
    /\ UNCHANGED <<phase, uuids, sessions, ptys, produced, stdin, geometry,
                   sockets, uncaught, bound, ringVars>>

\* a mutant of OnSubscribeSession: a socket already in the room is answered
\* nothing
OnSubscribeSessionOnceOnly(v, sessionId) ==
    /\ v \in Connected
    /\ bound.subscribe
    /\ IF sessionId \in DOMAIN sessions /\ sessionId \notin rooms[v]
       THEN \E h \in RingToString(sessions[sessionId].history) :
                /\ rooms' = [rooms EXCEPT ![v] = @ \cup {sessionId}]
                /\ IF Len(h) # 0
                   THEN /\ HasRoom({v})
                        /\ inbox' = Emit({v}, [type |-> "history",
                                               sessionId |-> sessionId,
                                               history |-> h])
                   ELSE inbox' = inbox
       ELSE UNCHANGED <<rooms, inbox>>
    /\ event' = [type |-> "subscribe-session", socket |-> v, sessionId |-> sessionId]
    /\ UNCHANGED <<phase, uuids, sessions, ptys, produced, stdin, geometry,
                   sockets, uncaught, bound, ringVars>>

\* socket.on('subscribe-session')
OnSubscribeSession(v, sessionId) ==
    /\ v \in Connected
    /\ bound.subscribe
    /\ IF sessionId \in DOMAIN sessions
       THEN \E h \in RingToString(sessions[sessionId].history) :
                /\ rooms' = [rooms EXCEPT ![v] = @ \cup {sessionId}]
                /\ IF Len(h) # 0
                   THEN /\ HasRoom({v})
                        /\ inbox' = Emit({v}, [type |-> "history",
                                               sessionId |-> sessionId,
                                               history |-> h])
                   ELSE inbox' = inbox
       ELSE UNCHANGED <<rooms, inbox>>
    /\ event' = [type |-> "subscribe-session", socket |-> v, sessionId |-> sessionId]
    /\ UNCHANGED <<phase, uuids, sessions, ptys, produced, stdin, geometry,
                   sockets, uncaught, bound, ringVars>>

\* socket.on('create-session')
OnCreateSession(v, hasCallback, spawnOk) ==
    /\ v \in Connected
    /\ Cardinality(uuids) < bound.ids
    /\ CreateSession(uuidv4, spawnOk)
    /\ IF spawnOk /\ hasCallback
       THEN /\ HasRoom({v})
            /\ inbox' = Emit({v}, [type |-> "created",
                                   id |-> sessions'[uuidv4].id,
                                   name |-> sessions'[uuidv4].name])
       ELSE inbox' = inbox
    /\ event' = [type |-> "create-session", socket |-> v, id |-> uuidv4,
                 spawnOk |-> spawnOk]
    /\ UNCHANGED <<phase, sockets, rooms, uncaught, bound, ringVars>>

\* a mutant of OnTerminalInput: the data is written to every session's
\* process
OnTerminalInputToAll(v, sessionId, data) ==
    /\ v \in Connected
    /\ bound.relay
    /\ IF sessionId \in DOMAIN sessions
       THEN /\ TotalLen(stdin) < bound.writes
            /\ stdin' = [id \in DOMAIN stdin |->
                            IF id \in DOMAIN sessions
                            THEN Append(stdin[id], data)
                            ELSE stdin[id]]
       ELSE stdin' = stdin
    /\ event' = [type |-> "terminal-input", socket |-> v, sessionId |-> sessionId,
                 data |-> data]
    /\ UNCHANGED <<phase, uuids, sessions, ptys, produced, geometry, sockets,
                   rooms, inbox, uncaught, bound, ringVars>>

\* socket.on('terminal-input')
OnTerminalInput(v, sessionId, data) ==
    /\ v \in Connected
    /\ bound.relay
    /\ IF sessionId \in DOMAIN sessions
       THEN /\ TotalLen(stdin) < bound.writes
            /\ stdin' = [stdin EXCEPT ![sessionId] = Append(@, data)]
       ELSE stdin' = stdin
    /\ event' = [type |-> "terminal-input", socket |-> v, sessionId |-> sessionId,
                 data |-> data]
    /\ UNCHANGED <<phase, uuids, sessions, ptys, produced, geometry, sockets,
                   rooms, inbox, uncaught, bound, ringVars>>

\* pty.resize(cols, rows): throws once the process is gone
ResizeThrows(id) == ptys[id] # "running"

\* a mutant of ResizeCaught: pty.resize is called outside try/catch
ResizeNotCaught == FALSE

\* try { ... } catch(e) {} around the resize
ResizeCaught == TRUE

\* socket.on('terminal-resize'): the try/catch swallows what resize throws
OnTerminalResize(v, sessionId, size) ==
    /\ v \in Connected
    /\ bound.relay
    /\ IF sessionId \in DOMAIN sessions /\ ~ResizeThrows(sessionId)
       THEN geometry' = [geometry EXCEPT ![sessionId] = size]
       ELSE geometry' = geometry
    /\ uncaught' = (uncaught \/ (/\ sessionId \in DOMAIN sessions
                                 /\ ResizeThrows(sessionId)
                                 /\ ~ResizeCaught))
    /\ event' = [type |-> "terminal-resize", socket |-> v, sessionId |-> sessionId,
                 size |-> size]
    /\ UNCHANGED <<phase, uuids, sessions, ptys, produced, stdin, sockets,
                   rooms, inbox, bound, ringVars>>

\* a mutant of PtyData: the chunk is emitted to one socket of the room only
PtyDataToOneSocket(id, d) ==
    /\ id \in DOMAIN ptys
    /\ ptys[id] \in {"running", "dead"}
    /\ TotalLen(produced) < bound.output
    /\ HasRoom(InRoom(id))
    /\ produced' = [produced EXCEPT ![id] = Append(@, d)]
    /\ sessions' = [sessions EXCEPT ![id].history = RingAppend(@, d)]
    /\ inbox' = Emit({v \in InRoom(id) : \A w \in InRoom(id) : v <= w},
                     [type |-> "output", sessionId |-> id, data |-> d])
    /\ event' = [type |-> "data", id |-> id]
    /\ UNCHANGED <<phase, uuids, ptys, stdin, geometry, sockets, rooms,
                   uncaught, bound, ringVars>>

\* a mutant of PtyData: the chunk is emitted to every connected socket
PtyDataToAll(id, d) ==
    /\ id \in DOMAIN ptys
    /\ ptys[id] \in {"running", "dead"}
    /\ TotalLen(produced) < bound.output
    /\ HasRoom(Connected)
    /\ produced' = [produced EXCEPT ![id] = Append(@, d)]
    /\ sessions' = [sessions EXCEPT ![id].history = RingAppend(@, d)]
    /\ inbox' = Emit(Connected, [type |-> "output", sessionId |-> id, data |-> d])
    /\ event' = [type |-> "data", id |-> id]
    /\ UNCHANGED <<phase, uuids, ptys, stdin, geometry, sockets, rooms,
                   uncaught, bound, ringVars>>

\* a mutant of PtyData: the chunk is appended to the history, the emit is
\* left to a later turn of the event loop
PtyDataEmitsLater(id, d) ==
    /\ id \in DOMAIN ptys
    /\ ptys[id] \in {"running", "dead"}
    /\ TotalLen(produced) < bound.output
    /\ HasRoom(InRoom(id))
    /\ produced' = [produced EXCEPT ![id] = Append(@, d)]
    /\ sessions' = [sessions EXCEPT ![id].history = RingAppend(@, d)]
    /\ event' = [type |-> "data", id |-> id]
    /\ UNCHANGED <<phase, uuids, ptys, stdin, geometry, sockets, rooms, inbox,
                   uncaught, bound, ringVars>>

\* a mutant of PtyData: a chunk nobody is subscribed for is not kept
PtyDataSkipsUnwatched(id, d) ==
    /\ id \in DOMAIN ptys
    /\ ptys[id] \in {"running", "dead"}
    /\ TotalLen(produced) < bound.output
    /\ HasRoom(InRoom(id))
    /\ produced' = [produced EXCEPT ![id] = Append(@, d)]
    /\ sessions' = IF InRoom(id) = {}
                   THEN sessions
                   ELSE [sessions EXCEPT ![id].history = RingAppend(@, d)]
    /\ inbox' = Emit(InRoom(id), [type |-> "output", sessionId |-> id, data |-> d])
    /\ event' = [type |-> "data", id |-> id]
    /\ UNCHANGED <<phase, uuids, ptys, stdin, geometry, sockets, rooms,
                   uncaught, bound, ringVars>>

\* ptyProc.on('data'): append to the history, emit to the session's room
PtyData(id, d) ==
    /\ id \in DOMAIN ptys
    /\ ptys[id] \in {"running", "dead"}
    /\ TotalLen(produced) < bound.output
    /\ HasRoom(InRoom(id))
    /\ produced' = [produced EXCEPT ![id] = Append(@, d)]
    /\ sessions' = [sessions EXCEPT ![id].history = RingAppend(@, d)]
    /\ inbox' = Emit(InRoom(id), [type |-> "output", sessionId |-> id, data |-> d])
    /\ event' = [type |-> "data", id |-> id]
    /\ UNCHANGED <<phase, uuids, ptys, stdin, geometry, sockets, rooms,
                   uncaught, bound, ringVars>>

\* the process terminates; node-pty has not reported it yet
PtyDie(id) ==
    /\ id \in DOMAIN ptys
    /\ ptys[id] = "running"
    /\ ptys' = [ptys EXCEPT ![id] = "dead"]
    /\ event' = [type |-> "die", id |-> id]
    /\ UNCHANGED <<phase, uuids, sessions, produced, stdin, geometry, sockets,
                   rooms, inbox, uncaught, bound, ringVars>>

\* a mutant of PtyExit: session-closed goes to the session's room only
PtyExitToRoom(id) ==
    /\ id \in DOMAIN ptys
    /\ ptys[id] = "dead"
    /\ HasRoom(Connected)
    /\ ptys' = [ptys EXCEPT ![id] = "exited"]
    /\ sessions' = [i \in DOMAIN sessions \ {id} |-> sessions[i]]
    /\ inbox' = Emit(InRoom(id), [type |-> "session-closed", id |-> id])
    /\ event' = [type |-> "exit", id |-> id]
    /\ UNCHANGED <<phase, uuids, produced, stdin, geometry, sockets, rooms,
                   uncaught, bound, ringVars>>

\* a mutant of PtyExit: the sessions that stay are renumbered Term 1, Term 2, ...
PtyExitRenumbers(id) ==
    /\ id \in DOMAIN ptys
    /\ ptys[id] = "dead"
    /\ HasRoom(Connected)
    /\ ptys' = [ptys EXCEPT ![id] = "exited"]
    /\ LET order == InsertionOrder(DOMAIN sessions \ {id})
       IN  sessions' = [i \in DOMAIN sessions \ {id} |->
                          [sessions[i] EXCEPT !.name =
                              SessionName(CHOOSE k \in 1..Len(order) : order[k] = i)]]
    /\ inbox' = Emit(Connected, [type |-> "session-closed", id |-> id])
    /\ event' = [type |-> "exit", id |-> id]
    /\ UNCHANGED <<phase, uuids, produced, stdin, geometry, sockets, rooms,
                   uncaught, bound, ringVars>>

\* a mutant of PtyExit: the session is announced closed but stays in the
\* registry
PtyExitKeepsSession(id) ==
    /\ id \in DOMAIN ptys
    /\ ptys[id] = "dead"
    /\ HasRoom(Connected)
    /\ ptys' = [ptys EXCEPT ![id] = "exited"]
    /\ inbox' = Emit(Connected, [type |-> "session-closed", id |-> id])
    /\ event' = [type |-> "exit", id |-> id]
    /\ UNCHANGED <<phase, uuids, sessions, produced, stdin, geometry, sockets,
                   rooms, uncaught, bound, ringVars>>

\* a mutant of PtyExit: a session that still has subscribers is left in the
\* registry
PtyExitKeepsWatched(id) ==
    /\ id \in DOMAIN ptys
    /\ ptys[id] = "dead"
    /\ HasRoom(Connected)
    /\ ptys' = [ptys EXCEPT ![id] = "exited"]
    /\ sessions' = IF InRoom(id) = {}
                   THEN [i \in DOMAIN sessions \ {id} |-> sessions[i]]
                   ELSE sessions
    /\ inbox' = Emit(Connected, [type |-> "session-closed", id |-> id])
    /\ event' = [type |-> "exit", id |-> id]
    /\ UNCHANGED <<phase, uuids, produced, stdin, geometry, sockets, rooms,
                   uncaught, bound, ringVars>>

\* ptyProc.on('exit'): unregister, tell every connected socket
PtyExit(id) ==
    /\ id \in DOMAIN ptys
    /\ ptys[id] = "dead"
    /\ HasRoom(Connected)
    /\ ptys' = [ptys EXCEPT ![id] = "exited"]
    /\ sessions' = [i \in DOMAIN sessions \ {id} |-> sessions[i]]
    /\ inbox' = Emit(Connected, [type |-> "session-closed", id |-> id])
    /\ event' = [type |-> "exit", id |-> id]
    /\ UNCHANGED <<phase, uuids, produced, stdin, geometry, sockets, rooms,
                   uncaught, bound, ringVars>>

-----------------------------------------------------------------------------
(* The server before the module body has run *)

ServerInit ==
    /\ phase = "loading"
    /\ uuids = {}
    /\ sessions = <<>>
    /\ ptys = <<>>
    /\ produced = <<>>
    /\ stdin = <<>>
    /\ geometry = <<>>
    /\ sockets = <<>>
    /\ rooms = <<>>
    /\ inbox = <<>>
    /\ event = [type |-> "none"]
    /\ uncaught = FALSE

-----------------------------------------------------------------------------
(* RingSpec: one RingBuffer of any capacity 1..MaxLimit and the appends made
   to it *)

RingInit ==
    /\ \E limitBytes \in 1..MaxLimit : rb = NewRingBuffer(limitBytes)
    /\ appended = <<>>
    /\ ServerInit
    /\ bound = RelaySlice

\* rb.append(input)
AppendChunk ==
    \E input \in StringsUpTo(MaxChunkLen) :
        /\ Len(appended) + Len(Utf8Encode(input)) <= MaxTotal
        /\ rb' = RingAppend(rb, input)
        /\ appended' = appended \o Utf8Encode(input)
        /\ UNCHANGED serverVars

RingNext == AppendChunk

RingSpec == RingInit /\ [][RingNext]_vars

\* the last n elements of s
LastN(s, n) == SubSeq(s, Len(s) - n + 1, Len(s))

\* the bytes the buffer should hold: the last min(total, limit) appended
Retained == LastN(appended, Min(Len(appended), rb.limit))

\* The bytes read back are the retained bytes, whatever the allocation held.
RingHoldsRetainedBytes == Reads(RingCells(rb)) = {Retained}

\* C1: the content read back by toString is the last min(total bytes
\* appended, C) bytes of the concatenation of the appended chunks.
C1_ToStringIsRetained ==
    \A text \in RingToString(rb) : Utf8Encode(text) = Retained


-----------------------------------------------------------------------------
(* Spec: the server from module load on *)

Init ==
    /\ ServerInit
    /\ bound \in Slices
    /\ rb = NewRingBuffer(1)
    /\ appended = <<>>

Next ==
    \/ Bootstrap
    \/ OnConnection
    \/ \E v \in Connected : OnDisconnect(v)
    \/ \E v \in Connected, sessionId \in Ids : OnSubscribeSession(v, sessionId)
    \/ \E v \in Connected, hasCallback \in BOOLEAN, spawnOk \in BOOLEAN :
          OnCreateSession(v, hasCallback, spawnOk)
    \/ \E v \in Connected, sessionId \in Ids, data \in InputData :
          OnTerminalInput(v, sessionId, data)
    \/ \E v \in Connected, sessionId \in Ids, size \in Sizes :
          OnTerminalResize(v, sessionId, size)
    \/ \E id \in Ids, d \in PtyChunks : PtyData(id, d)
    \/ \E id \in Ids : PtyDie(id)
    \/ \E id \in Ids : PtyExit(id)

Spec == Init /\ [][Next]_vars

-----------------------------------------------------------------------------
(* What the claims are stated with *)

Names(reg) == {reg[i].name : i \in DOMAIN reg}

\* the smallest positive n with no session named "Term n"
LeastUnused(reg) ==
    CHOOSE n \in 1..(Cardinality(DOMAIN reg) + 1) :
        /\ SessionName(n) \notin Names(reg)
        /\ \A m \in 1..(n - 1) : SessionName(m) \in Names(reg)

ClosedMsg(id) == [type |-> "session-closed", id |-> id]

OutputMsg(id, d) == [type |-> "output", sessionId |-> id, data |-> d]

HistoryMsg(id, h) == [type |-> "history", sessionId |-> id, history |-> h]

\* how many session-closed messages for id the socket v was sent
ClosedCount(v, id) ==
    Cardinality({k \in 1..Len(inbox[v]) :
                    /\ inbox[v][k].type = "session-closed"
                    /\ inbox[v][k].id = id})

\* the live chunks of session id the socket v was sent, in order
Outputs(v, id) ==
    LET IsOutput(m) == m.type = "output" /\ m.sessionId = id
        msgs == SelectSeq(inbox[v], IsOutput)
    IN  [k \in 1..Len(msgs) |-> msgs[k].data]

IsPrefix(a, b) == Len(a) <= Len(b) /\ SubSeq(b, 1, Len(a)) = a

IsSuffix(a, b) == Len(a) <= Len(b) /\ SubSeq(b, Len(b) - Len(a) + 1, Len(b)) = a

IsInfix(a, b) ==
    \E k \in 0..(Len(b) - Len(a)) : SubSeq(b, k + 1, k + Len(a)) = a

\* the process of id has emitted nothing, or was never spawned
ProducedBy(id) == IF id \in DOMAIN produced THEN produced[id] ELSE <<>>

-----------------------------------------------------------------------------
(* C2 *)

\* C2: in every reachable registry, getNextSessionNumber is the smallest
\* positive integer n such that no registered session is named "Term n".
C2_NextNumberIsSmallestUnused ==
    getNextSessionNumber(sessions) = LeastUnused(sessions)

\* the registry {Term 1, Term 2, Term 4}, for which the answer is 3
C2_Witness ==
    /\ Names(sessions) = {SessionName(1), SessionName(2), SessionName(4)}
    /\ getNextSessionNumber(sessions) = 3

-----------------------------------------------------------------------------
(* C3 *)

C3_Closed ==
    /\ \A id \in DOMAIN ptys : ptys[id] = "exited" => id \notin Registered
    /\ \A v \in DOMAIN inbox : \A id \in 1..bound.ids :
          /\ ClosedCount(v, id) <= 1
          /\ ClosedCount(v, id) = 1 => (id \in DOMAIN ptys /\ ptys[id] = "exited")

C3_ExitStep ==
    \A id \in DOMAIN ptys :
        (ptys[id] # "exited" /\ ptys'[id] = "exited") =>
            /\ id \notin DOMAIN sessions'
            /\ \A v \in DOMAIN inbox :
                  inbox'[v] = IF v \in Connected
                              THEN Append(inbox[v], ClosedMsg(id))
                              ELSE inbox[v]

\* C3: once a session's process has exited the session is not registered;
\* the exit sends session-closed for its id to every socket connected then,
\* subscribed or not; no socket ever holds two of them for one id, and none
\* for a process that has not exited.
C3_ExitClosesOnce == []C3_Closed /\ [][C3_ExitStep]_vars

\* an exit seen by a subscriber and by a socket that never subscribed
C3_Witness ==
    \E id \in DOMAIN ptys : \E v \in Connected : \E w \in Connected :
        /\ ptys[id] = "exited"
        /\ id \in rooms[v]
        /\ id \notin rooms[w]
        /\ ClosedCount(v, id) = 1
        /\ ClosedCount(w, id) = 1

-----------------------------------------------------------------------------
(* C4 *)

C4_InOrder ==
    \A v \in DOMAIN inbox : \A id \in 1..bound.ids :
        /\ IsInfix(Outputs(v, id), ProducedBy(id))
        /\ v \in InRoom(id) => IsSuffix(Outputs(v, id), ProducedBy(id))

C4_DataStep ==
    \A id \in DOMAIN produced :
        produced'[id] # produced[id] =>
            LET d == produced'[id][Len(produced'[id])]
                limit == sessions[id].history.limit
            IN  /\ produced'[id] = Append(produced[id], d)
                /\ id \in DOMAIN sessions'
                /\ \A old \in Reads(RingCells(sessions[id].history)) :
                      LET all == old \o Utf8Encode(d)
                      IN  Reads(RingCells(sessions'[id].history))
                             = {LastN(all, Min(Len(all), limit))}
                /\ \A v \in DOMAIN inbox :
                      inbox'[v] = IF v \in InRoom(id)
                                  THEN Append(inbox[v], OutputMsg(id, d))
                                  ELSE inbox[v]

\* C4: each chunk a process emits is appended to its session's history and
\* sent, in the same step, to exactly the sockets subscribed then; so the
\* chunks a socket holds for a session are a run of the process's output, up
\* to its end while the socket is subscribed, and two subscribed sockets hold
\* the same chunks from the later subscription on.
C4_FanoutInOrder == []C4_InOrder /\ [][C4_DataStep]_vars

\* two sockets subscribed to one session hold the same two different chunks
C4_Witness ==
    \E id \in DOMAIN produced : \E v \in InRoom(id) : \E w \in InRoom(id) :
        /\ v # w
        /\ Len(Outputs(v, id)) = 2
        /\ Outputs(v, id)[1] # Outputs(v, id)[2]
        /\ Outputs(w, id) = Outputs(v, id)

-----------------------------------------------------------------------------
(* C5 *)

C5_SubscribeStep ==
    (event'.type = "subscribe-session" /\ event'.sessionId \in Registered) =>
        LET v == event'.socket
            id == event'.sessionId
            texts == RingToString(sessions[id].history)
        IN  /\ id \in rooms'[v]
            /\ \A w \in DOMAIN inbox : w # v => inbox'[w] = inbox[w]
            /\ IF sessions[id].history.len = 0
               THEN inbox'[v] = inbox[v]
               ELSE \E h \in texts : /\ h # <<>>
                                     /\ inbox'[v] = Append(inbox[v], HistoryMsg(id, h))

C5_AppendOnly ==
    \A v \in DOMAIN inbox : IsPrefix(inbox[v], inbox'[v])

\* C5: a subscribe to a registered session whose history is not empty sends
\* the subscriber one history message with what toString returns then, before
\* anything sent later (messages are only ever added at the end); with an
\* empty history it sends nothing.
C5_ReplayOnSubscribe == [][C5_SubscribeStep /\ C5_AppendOnly]_vars

\* a replay followed by a live chunk of the same session
C5_Witness ==
    \E v \in DOMAIN inbox : \E k \in 1..(Len(inbox[v]) - 1) :
        /\ inbox[v][k].type = "history"
        /\ inbox[v][k + 1].type = "output"
        /\ inbox[v][k + 1].sessionId = inbox[v][k].sessionId

-----------------------------------------------------------------------------
(* C6 *)

C6_FailStep ==
    \A id \in DOMAIN ptys' \ DOMAIN ptys :
        ptys'[id] = "failed" =>
            /\ UNCHANGED <<sessions, rooms, inbox, sockets, produced, stdin,
                           geometry>>
            /\ getNextSessionNumber(sessions') = getNextSessionNumber(sessions)

\* C6: a createSession whose spawn fails leaves the registry, the sessions,
\* the rooms and every socket's messages as they were, and the next name to
\* be given is the one it would have given.
C6_FailedSpawnRegistersNothing == [][C6_FailStep]_vars

\* a create-session request failed, and a later create succeeded
C6_Witness ==
    \E f \in DOMAIN ptys : \E g \in Registered :
        /\ ptys[f] = "failed"
        /\ f > 1
        /\ g > f

-----------------------------------------------------------------------------
(* C7 *)

C7_UnknownIdStep ==
    (/\ event'.type \in {"subscribe-session", "terminal-input", "terminal-resize"}
     /\ event'.sessionId \notin Registered) =>
        /\ UNCHANGED <<sessions, rooms, inbox, sockets, ptys, produced, stdin,
                       geometry, uuids>>
        /\ uncaught' = FALSE

\* C7: subscribe, input and resize for an id that is not registered change
\* nothing but the record of the request, and no exception leaves them.
C7_UnknownIdIsNoOp == [][C7_UnknownIdStep]_vars

\* a request for a session that was removed when its process exited
C7_Witness ==
    /\ event.type \in {"subscribe-session", "terminal-input", "terminal-resize"}
    /\ event.sessionId \in DOMAIN ptys
    /\ ptys[event.sessionId] = "exited"
    /\ Registered # {}

-----------------------------------------------------------------------------
(* C8 *)

\* C8 as claimed: after initialisation and before any connection the registry
\* is exactly one session, named Term 1.
C8_OneSessionAfterStartup ==
    (phase = "listening" /\ sockets = <<>>) =>
        /\ Cardinality(Registered) = 1
        /\ Names(sessions) = {SessionName(1)}

\* C8 amended: it is so when the bootstrap spawn succeeded and for as long as
\* that session's process has not been reported to have exited; when the
\* spawn failed the registry is empty.
C8_OneSessionWhileBootstrapLives ==
    (phase = "listening" /\ sockets = <<>>) =>
        /\ ptys[1] \in {"running", "dead"} =>
              /\ Cardinality(Registered) = 1
              /\ Names(sessions) = {SessionName(1)}
        /\ ptys[1] = "failed" => Registered = {}

\* the server has just started, with its one session
C8_Witness ==
    /\ phase = "listening"
    /\ sockets = <<>>
    /\ event.type = "bootstrap"
    /\ Names(sessions) = {SessionName(1)}

-----------------------------------------------------------------------------
(* C9 *)

C9_NameStep ==
    /\ \A id \in DOMAIN sessions \cap DOMAIN sessions' :
          sessions'[id].name = sessions[id].name
    /\ \A id \in DOMAIN sessions' \ DOMAIN sessions :
          sessions'[id].name = SessionName(LeastUnused(sessions))

\* C9: no step changes the name of a session that stays registered, and a
\* session created takes the smallest number free then, also one freed by a
\* session that was removed.
C9_NamesNeverChange == [][C9_NameStep]_vars

\* a session created later holds a lower number than an older one
C9_Witness ==
    \E i \in Registered : \E j \in Registered :
        /\ i < j
        /\ sessions[i].name = SessionName(2)
        /\ sessions[j].name = SessionName(1)

-----------------------------------------------------------------------------
(* C10 *)

\* C10: the registered sessions have pairwise distinct ids and pairwise
\* distinct names.
C10_IdsAndNamesDistinct ==
    \A i \in Registered : \A j \in Registered :
        i # j => /\ sessions[i].id # sessions[j].id
                 /\ sessions[i].name # sessions[j].name

\* three sessions registered after a failed create and an exit
C10_Witness ==
    /\ Cardinality(Registered) = 3
    /\ \E f \in DOMAIN ptys : ptys[f] = "failed"
    /\ \E x \in DOMAIN ptys : ptys[x] = "exited"

-----------------------------------------------------------------------------
\* C11: a session leaves the registry only in the step that handles the exit
\* of its own process: every other step (a connection, a disconnect, a
\* request of a viewer, an event of another session) keeps it, and a session
\* whose process has not been reported as exited is registered whoever is
\* connected.
C11_Kept ==
    \A id \in DOMAIN ptys : ptys[id] \in {"running", "dead"} => id \in Registered

C11_RemovalStep ==
    \A id \in Registered \ DOMAIN sessions' :
        /\ event' = [type |-> "exit", id |-> id]
        /\ ptys[id] = "dead"
        /\ ptys'[id] = "exited"
        /\ Registered \ {id} \subseteq DOMAIN sessions'

C11_RemovedOnlyByOwnExit == []C11_Kept /\ [][C11_RemovalStep]_vars

\* the only viewer has left, another session has exited, and a session
\* whose process runs is still there
C11_Witness ==
    /\ sockets # <<>>
    /\ Connected = {}
    /\ \E id \in Registered : ptys[id] = "running"
    /\ \E id \in DOMAIN ptys : ptys[id] = "exited"

-----------------------------------------------------------------------------
\* the chunks of a process, one after the other
RECURSIVE Flatten(_)
Flatten(chunks) ==
    IF chunks = <<>> THEN <<>> ELSE Head(chunks) \o Flatten(Tail(chunks))

\* the bytes the process of id has emitted so far
OutputBytes(id) == Utf8Encode(Flatten(ProducedBy(id)))

\* the bytes a history of limit bytes should hold of them
RetainedOutput(id, limit) ==
    LastN(OutputBytes(id), Min(Len(OutputBytes(id)), limit))

\* Every chunk reaches the history of its own session, subscribers or not:
\* the history holds the last min(total, limit) bytes of the session's output.
HistoryHoldsRetainedOutput ==
    \A id \in Registered :
        Reads(RingCells(sessions[id].history)) =
            {RetainedOutput(id, sessions[id].history.limit)}

\* C12: when all the output of a session was produced with nobody subscribed,
\* the viewer that subscribes afterwards is sent a replay equal to the last
\* min(total output bytes, C) bytes of that output.
C12_SubscribeStep ==
    (/\ event'.type = "subscribe-session"
     /\ event'.sessionId \in Registered
     /\ OutputBytes(event'.sessionId) # <<>>
     /\ \A w \in DOMAIN inbox : Outputs(w, event'.sessionId) = <<>>) =>
        LET v == event'.socket
            id == event'.sessionId
            sent == inbox'[v]
        IN  /\ Len(sent) = Len(inbox[v]) + 1
            /\ IsPrefix(inbox[v], sent)
            /\ sent[Len(sent)].type = "history"
            /\ sent[Len(sent)].sessionId = id
            /\ Utf8Encode(sent[Len(sent)].history) =
                   RetainedOutput(id, sessions[id].history.limit)

C12_LateReplayIsRetainedOutput == [][C12_SubscribeStep]_vars

-----------------------------------------------------------------------------
\* what the step sends to socket v
Sent(v) ==
    LET old == IF v \in DOMAIN inbox THEN Len(inbox[v]) ELSE 0
    IN  SubSeq(inbox'[v], old + 1, Len(inbox'[v]))

\* the rooms socket v is in before the step
RoomsOf(v) == IF v \in DOMAIN rooms THEN rooms[v] ELSE {}

\* a socket enters the room of a session only by its own subscribe-session,
\* and only for a registered session
C13_JoinStep ==
    \A v \in DOMAIN rooms' : \A id \in rooms'[v] \ RoomsOf(v) :
        /\ event' = [type |-> "subscribe-session", socket |-> v, sessionId |-> id]
        /\ id \in Registered

\* an output message is a chunk the process of that very session emits in
\* this step, sent to a socket in the session's room, and appended to no
\* other history; a history message answers the socket's own subscribe
C13_DeliveryStep ==
    \A v \in DOMAIN inbox' : \A k \in DOMAIN Sent(v) :
        LET m == Sent(v)[k]
        IN  /\ m.type = "output" =>
                /\ event' = [type |-> "data", id |-> m.sessionId]
                /\ v \in Connected
                /\ m.sessionId \in RoomsOf(v)
                /\ produced' = [produced EXCEPT ![m.sessionId] = Append(@, m.data)]
                /\ DOMAIN sessions' = DOMAIN sessions
                /\ \A other \in Registered \ {m.sessionId} :
                       sessions'[other] = sessions[other]
            /\ m.type = "history" =>
                /\ event' = [type |-> "subscribe-session", socket |-> v,
                             sessionId |-> m.sessionId]
                /\ m.sessionId \in Registered
                /\ m.history \in RingToString(sessions[m.sessionId].history)
                /\ UNCHANGED <<produced, sessions>>

\* C13: a viewer is sent an output or history message for a session only if
\* it subscribed to that session itself, earlier, while the session was
\* registered; output goes to no socket outside the session's room, and the
\* chunk of one session is neither sent under, nor appended to the history
\* of, another.
C13_SessionsIsolated ==
    []HistoryHoldsRetainedOutput /\ [][C13_JoinStep /\ C13_DeliveryStep]_vars

\* two sessions have emitted; the socket subscribed to one of them was sent
\* that one's chunk and nothing of the other
C13_Witness ==
    \E v \in Connected : \E a, b \in Registered :
        /\ a # b
        /\ rooms[v] = {a}
        /\ ProducedBy(a) # <<>>
        /\ ProducedBy(b) # <<>>
        /\ Outputs(v, a) = ProducedBy(a)
        /\ Outputs(v, b) = <<>>

-----------------------------------------------------------------------------
\* C14: a terminal-resize for a registered session whose process rejects it
\* (it has terminated, its exit is not handled yet) is absorbed: nothing is
\* thrown out of the handler, and the registry, every history, every room,
\* every inbox and every process are as they were.
C14_RejectedResizeStep ==
    (/\ event'.type = "terminal-resize"
     /\ event'.sessionId \in Registered
     /\ ResizeThrows(event'.sessionId)) =>
        /\ ~uncaught'
        /\ UNCHANGED <<phase, uuids, sessions, ptys, produced, stdin, geometry,
                       sockets, rooms, inbox>>

C14_RejectedResizeAbsorbed == [][C14_RejectedResizeStep]_vars

\* a resize was relayed to a registered session whose process had terminated,
\* next to a session that runs
C14_Witness ==
    /\ event.type = "terminal-resize"
    /\ event.sessionId \in Registered
    /\ ptys[event.sessionId] = "dead"
    /\ \E other \in Registered : ptys[other] = "running"

-----------------------------------------------------------------------------
\* C15: the first thing a new connection is sent is the sessions list, and
\* it holds exactly the {id, name} pairs of the sessions registered at that
\* instant, each once; no session whose exit has been handled is in it.
C15_ConnectionStep ==
    event'.type = "connection" =>
        LET v == event'.socket
            list == inbox'[v][1].list
        IN  /\ Len(inbox'[v]) = 1
            /\ inbox'[v][1].type = "sessions-list"
            /\ {list[k] : k \in DOMAIN list} =
                   {[id |-> sessions[id].id, name |-> sessions[id].name] :
                        id \in Registered}
            /\ Len(list) = Cardinality(Registered)
            /\ \A k \in DOMAIN list : ptys[list[k].id] # "exited"
            /\ sessions' = sessions

C15_ListIsTheRegistry == [][C15_ConnectionStep]_vars

\* a connection made when two sessions were registered and one had exited
C15_Witness ==
    /\ event.type = "connection"
    /\ Len(inbox[event.socket][1].list) = 2
    /\ \E id \in DOMAIN ptys : ptys[id] = "exited"

-----------------------------------------------------------------------------
\* C16: in every reachable state of a RingBuffer of capacity C >= 1,
\* 0 <= len <= C and 0 <= start < C, and the len bytes it holds are the
\* newest len bytes appended, len = min(total, C): an overflowing append
\* drops bytes at the oldest end only, never from the tail of the newest
\* chunk.
C16_RingInvariant ==
    /\ rb.limit >= 1
    /\ Len(rb.buf) = rb.limit
    /\ 0 <= rb.len /\ rb.len <= rb.limit
    /\ 0 <= rb.start /\ rb.start < rb.limit
    /\ rb.len = Min(Len(appended), rb.limit)
    /\ \A bytes \in Reads(RingCells(rb)) :
           /\ Len(bytes) = rb.len
           /\ IsSuffix(bytes, appended)

\* the buffer has overflowed and its content wraps around the end
C16_Witness ==
    /\ Len(appended) > rb.limit
    /\ rb.start > 0
    /\ rb.len = rb.limit
    /\ rb.limit >= 2

-----------------------------------------------------------------------------
\* every registered session has a process that was spawned and whose exit
\* has not been handled, and whoever holds a session-closed message for an
\* id finds that id gone from the registry
C17_Live ==
    /\ \A id \in Registered :
          /\ sessions[id].id = id
          /\ id \in DOMAIN ptys
          /\ ptys[id] \in {"running", "dead"}
    /\ \A v \in DOMAIN inbox : \A k \in DOMAIN inbox[v] :
          inbox[v][k].type = "session-closed" => inbox[v][k].id \notin Registered

\* a session enters the registry in the step its spawn succeeds, and the
\* step that handles an exit has removed the session when it ends
C17_RegistryStep ==
    /\ \A id \in DOMAIN sessions' \ Registered :
          id \notin DOMAIN ptys /\ ptys'[id] = "running"
    /\ event'.type = "exit" =>
          /\ ptys[event'.id] = "dead"
          /\ ptys'[event'.id] = "exited"
          /\ event'.id \in Registered
          /\ event'.id \notin DOMAIN sessions'

\* C17: every session in the registry has a process whose exit has not been
\* handled: a session is registered only with a successful spawn, and it is
\* removed in the very step that handles the exit of its process, so that
\* the session-closed broadcast and every later request find it gone.
C17_RegisteredHaveLiveProcess == []C17_Live /\ [][C17_RegistryStep]_vars

\* a failed spawn, a handled exit announced to a viewer, and a session left
C17_Witness ==
    /\ \E id \in DOMAIN ptys : ptys[id] = "failed"
    /\ \E id \in DOMAIN ptys :
          /\ ptys[id] = "exited"
          /\ \E v \in Connected : ClosedCount(v, id) = 1
    /\ \E id \in Registered : ptys[id] = "running"

-----------------------------------------------------------------------------
\* the step that appends a chunk to a history also delivers it, to the room
\* as it is before and after the step: no subscribe falls in between
C18_DataStep ==
    \A id \in DOMAIN produced :
        (id \in DOMAIN produced' /\ produced'[id] # produced[id]) =>
            LET d == produced'[id][Len(produced'[id])]
            IN  /\ produced'[id] = Append(produced[id], d)
                /\ rooms' = rooms
                /\ sockets' = sockets
                /\ id \in Registered =>
                      sessions'[id].history = RingAppend(sessions[id].history, d)
                /\ \A v \in DOMAIN inbox :
                      inbox'[v] = IF v \in InRoom(id)
                                  THEN Append(inbox[v], OutputMsg(id, d))
                                  ELSE inbox[v]

\* the step that adds a socket to a room also takes the snapshot it replays,
\* of a history that is the same before and after the step: no chunk falls
\* in between
C18_SubscribeStep ==
    (event'.type = "subscribe-session" /\ event'.sessionId \in Registered) =>
        LET v == event'.socket
            id == event'.sessionId
        IN  /\ rooms' = [rooms EXCEPT ![v] = @ \cup {id}]
            /\ UNCHANGED <<sessions, produced>>
            /\ \A w \in DOMAIN inbox \ {v} : inbox'[w] = inbox[w]
            /\ \/ /\ sessions'[id].history.len = 0
                  /\ inbox'[v] = inbox[v]
               \/ \E h \in RingToString(sessions'[id].history) :
                      inbox'[v] = Append(inbox[v], HistoryMsg(id, h))

\* C18: for each chunk, the append to the history and the fanout to the
\* subscribers are one atomic step with respect to subscribe, and so are a
\* subscribe's membership add and its history snapshot.
C18_AppendAndFanoutAtomic == [][C18_DataStep /\ C18_SubscribeStep]_vars

\* a subscriber that was sent a replay and, after it, a live chunk
C18_Witness ==
    /\ event.type = "data"
    /\ \E v \in InRoom(event.id) :
          /\ Len(inbox[v]) >= 2
          /\ inbox[v][Len(inbox[v])].type = "output"
          /\ inbox[v][Len(inbox[v]) - 1].type = "history"
          /\ inbox[v][Len(inbox[v]) - 1].sessionId = event.id

-----------------------------------------------------------------------------
\* input for a registered session is written, as it came, to the process of
\* that session and to no other
C19_InputStep ==
    (event'.type = "terminal-input" /\ event'.sessionId \in Registered) =>
        /\ stdin' = [stdin EXCEPT ![event'.sessionId] = Append(@, event'.data)]
        /\ UNCHANGED <<sessions, rooms, inbox, sockets, ptys, produced,
                       geometry, uuids, uncaught>>

\* a resize for a registered session sets the geometry of the process of
\* that session (if the process takes it) and of no other
C19_ResizeStep ==
    (event'.type = "terminal-resize" /\ event'.sessionId \in Registered) =>
        /\ geometry' = IF ResizeThrows(event'.sessionId)
                       THEN geometry
                       ELSE [geometry EXCEPT ![event'.sessionId] = event'.size]
        /\ UNCHANGED <<sessions, rooms, inbox, sockets, ptys, produced, stdin,
                       uuids>>

\* C19: input and resize relayed to a registered session forward the data,
\* verbatim, or the geometry to that session's process only; the registry,
\* every session's id, name and history, and every room stay as they were,
\* and no message is sent to any socket.
C19_RelayTouchesOneProcess == [][C19_InputStep /\ C19_ResizeStep]_vars

\* one of two registered sessions was resized, one of the two was written
\* to, and the others were not
C19_Witness ==
    /\ event.type = "terminal-resize"
    /\ event.sessionId \in Registered
    /\ geometry[event.sessionId] = <<100, 40>>
    /\ \E other \in Registered : geometry[other] = <<80, 30>>
    /\ \E id \in Registered : stdin[id] = <<<<233>>>>
    /\ \E other \in Registered : stdin[other] = <<>>

-----------------------------------------------------------------------------
\* the replays of session id the socket v was sent, in order
Replays(v, id) ==
    LET IsReplay(m) == m.type = "history" /\ m.sessionId = id
        msgs == SelectSeq(inbox[v], IsReplay)
    IN  [k \in 1..Len(msgs) |-> msgs[k].history]

\* the text socket v was sent for session id, replay or live, in the order
\* it was sent
Received(v, id) ==
    LET About(m) == m.type \in {"history", "output"} /\ m.sessionId = id
        msgs == SelectSeq(inbox[v], About)
    IN  Flatten([k \in 1..Len(msgs) |->
                    IF msgs[k].type = "history" THEN msgs[k].history
                    ELSE msgs[k].data])

\* socket v was sent no live chunk of session id before a replay of it
ReplayFirst(v, id) ==
    \A j, k \in DOMAIN inbox[v] :
        (/\ inbox[v][j].type = "output" /\ inbox[v][j].sessionId = id
         /\ inbox[v][k].type = "history" /\ inbox[v][k].sessionId = id) => k < j

\* C20: a connected viewer that subscribed to a session once (it is in the
\* room, was replayed to at most once and was sent nothing live before the
\* replay) has received, while the session's output fits the history, every
\* chunk exactly once, in the replay or live: the replay followed by the
\* live chunks is the output of the process, in order.
C20_ReplayThenLiveIsOutput ==
    \A v \in Connected : \A id \in rooms[v] :
        (/\ Len(OutputBytes(id)) <= HISTORY_LIMIT
         /\ Len(Replays(v, id)) <= 1
         /\ ReplayFirst(v, id)) =>
            /\ Received(v, id) = Flatten(ProducedBy(id))
            /\ \E p \in 0..Len(ProducedBy(id)) :
                   /\ Flatten(Replays(v, id)) =
                          Flatten(SubSeq(ProducedBy(id), 1, p))
                   /\ Outputs(v, id) =
                          SubSeq(ProducedBy(id), p + 1, Len(ProducedBy(id)))

\* a subscriber was replayed one chunk and then sent the next one live
C20_Witness ==
    \E v \in Connected : \E id \in rooms[v] :
        /\ Len(OutputBytes(id)) <= HISTORY_LIMIT
        /\ Len(ProducedBy(id)) = 2
        /\ Replays(v, id) = <<ProducedBy(id)[1]>>
        /\ Outputs(v, id) = <<ProducedBy(id)[2]>>
        /\ ReplayFirst(v, id)

-----------------------------------------------------------------------------
\* where in the inbox of socket v the last replay of session id is (0: none)
LastReplayAt(v, id) ==
    LET at == {k \in DOMAIN inbox[v] :
                  inbox[v][k].type = "history" /\ inbox[v][k].sessionId = id}
    IN  IF at = {} THEN 0 ELSE CHOOSE k \in at : \A j \in at : j <= k

\* the live chunks of session id socket v was sent after its last replay
OutputsSince(v, id) ==
    LET from == LastReplayAt(v, id)
        IsOutput(m) == m.type = "output" /\ m.sessionId = id
        msgs == SelectSeq(SubSeq(inbox[v], from + 1, Len(inbox[v])), IsOutput)
    IN  [k \in 1..Len(msgs) |-> msgs[k].data]

\* however often the socket subscribed, the chunks emitted since its last
\* replay reached it once each: while the output fits the history, the last
\* replay followed by the live chunks after it is the output of the process
C21_OncePerChunk ==
    \A v \in Connected : \A id \in rooms[v] :
        (Len(OutputBytes(id)) <= HISTORY_LIMIT /\ LastReplayAt(v, id) > 0) =>
            inbox[v][LastReplayAt(v, id)].history \o Flatten(OutputsSince(v, id))
                = Flatten(ProducedBy(id))

\* a subscribe of a socket that is in the room already leaves the rooms as
\* they are and, the history not being empty, sends one more replay
C21_ResubscribeStep ==
    (/\ event'.type = "subscribe-session"
     /\ event'.sessionId \in Registered
     /\ event'.sessionId \in rooms[event'.socket]) =>
        LET v == event'.socket
            id == event'.sessionId
        IN  /\ rooms' = rooms
            /\ \A w \in DOMAIN inbox \ {v} : inbox'[w] = inbox[w]
            /\ IF sessions[id].history.len = 0
               THEN inbox'[v] = inbox[v]
               ELSE \E h \in RingToString(sessions[id].history) :
                        inbox'[v] = Append(inbox[v], HistoryMsg(id, h))

\* a chunk is sent once to each socket of the room, whatever the number of
\* subscribes behind its membership
C21_ChunkStep ==
    \A id \in DOMAIN produced :
        (id \in DOMAIN produced' /\ produced'[id] # produced[id]) =>
            \A v \in InRoom(id) :
                Sent(v) = <<OutputMsg(id, produced'[id][Len(produced'[id])])>>

\* C21: subscribing is idempotent on membership: a socket that subscribes to
\* the same registered session several times is in its room once and is sent
\* each later chunk once, not once per subscribe, while every one of those
\* subscribes that finds a non-empty history sends its own replay.
C21_SubscribeIdempotent ==
    []C21_OncePerChunk /\ [][C21_ResubscribeStep /\ C21_ChunkStep]_vars

\* a socket subscribed twice, was replayed to twice, and was then sent the
\* next chunk once
C21_Witness ==
    \E v \in Connected : \E id \in rooms[v] :
        /\ Len(Replays(v, id)) = 2
        /\ Len(ProducedBy(id)) = 2
        /\ OutputsSince(v, id) = <<ProducedBy(id)[2]>>
        /\ Outputs(v, id) = OutputsSince(v, id)

=============================================================================
